---------------------------- MODULE Spec2Model ----------------------------
(***************************************************************************)
(* A model of the brainfuck interpreter of src/main.rs: the bracket        *)
(* resolution pass generate_loop_lookup_table and the fetch-decode-execute *)
(* loop of run, one action per opcode arm of the match.                    *)
(*                                                                         *)
(* Positions are 0-based as in the source; the character at position i of  *)
(* source_code is source_code[i + 1] of the TLA+ sequence.                 *)
(***************************************************************************)
EXTENDS Integers, Sequences, FiniteSets, TLC

VARIABLES
    source_code,      \* the program text handed to run, a sequence of chars
    overflow_checks,  \* the build: TRUE = debug (u8 overflow panics), FALSE = release (wraps)
    pc,               \* "start" | "loop" | "ok" | "err" | "panic"
    error,            \* the index carried by Err(MismatchedBrackets(index)), -1 if none
    loop_lut,         \* run's loop_lut: a sequence of <<open, close>> pairs
    memory,           \* run's memory: [0 .. MEMORY_SIZE-1 -> 0 .. 255]
    memory_pointer,   \* run's memory_pointer
    source_pointer,   \* run's source_pointer
    stdout,           \* the bytes written to standard output so far
    lines_read,       \* the number of read_line calls made on standard input
    last_step         \* history: the loop iteration just executed

vars == <<source_code, overflow_checks, pc, error, loop_lut, memory,
          memory_pointer, source_pointer, stdout, lines_read, last_step>>

---------------------------------------------------------------------------
(* Program constants and bounds *)

MEMORY_SIZE == 256

\* u8 cells: values 0 .. U8_MAX
U8_MAX == 255

\* the byte of '\n'
NEWLINE == 10

\* longest program of the general specification
MaxLen == 3

\* longest program of the loop specification
MaxLoopLen == 7

\* longest program of the bracket-resolution specification
MaxLutLen == 7

\* '.' is executed only while fewer than MaxOut bytes have been written
MaxOut == 4

\* ',' is executed only while fewer than MaxIn lines have been read
MaxIn == 2

---------------------------------------------------------------------------
(* Characters *)

\* The eight commands of the match in run.
Commands == {">", "<", "+", "-", ".", ",", "[", "]"}

\* A one-byte and a two-byte (UTF-8) character that is no command.
Others == {"x", "U+00E9"}

Chars == Commands \cup Others

\* Number of bytes of the UTF-8 encoding of a character of the program.
Utf8Width(character) == IF character = "U+00E9" THEN 2 ELSE 1

\* String::len(): the length in BYTES, one per character and one more for each
\* two-byte character.
ByteLen(s) == Len(s) + Cardinality({k \in 1 .. Len(s) : Utf8Width(s[k]) = 2})

\* All sequences over S of length 0 .. n.
SeqsUpTo(S, n) == UNION {[1 .. k -> S] : k \in 0 .. n}

---------------------------------------------------------------------------
(* generate_loop_lookup_table *)

LutOk(lut) == [ok |-> TRUE, lut |-> lut, index |-> -1]
LutErr(index) == [ok |-> FALSE, lut |-> <<>>, index |-> index]

\* Faulty variant: pushes the 1-based position.
PushOpen_OneBased(bracket_stack, index) == Append(bracket_stack, index + 1)

\* The loop body for '[' : bracket_stack.push(index)
PushOpen(bracket_stack, index) == Append(bracket_stack, index)

\* Faulty variant: pairs the ']' with the oldest pending '[' (a queue, not a stack).
ClosePair_Oldest(bracket_stack, index) == <<bracket_stack[1], index>>

\* The pair recorded for ']' : loop_lut.push((index_of_opening_bracket, index))
ClosePair(bracket_stack, index) == <<bracket_stack[Len(bracket_stack)], index>>

\* Faulty variant: the pair is put in front of the table (insert(0, ..)).
RecordPair_Front(lut, pair) == <<pair>> \o lut

\* loop_lut.push(pair)
RecordPair(lut, pair) == Append(lut, pair)

\* Faulty variant: reports the first pending '[' (bracket_stack.first()).
UnclosedIndex_First(bracket_stack) == bracket_stack[1]

\* The position reported after the scan: bracket_stack.last()
UnclosedIndex(bracket_stack) == bracket_stack[Len(bracket_stack)]

\* Faulty variant: reports the 1-based position of the orphan ']'.
OrphanClose_OneBased(index) == [ok |-> FALSE, lut |-> <<>>, index |-> index + 1]

\* ']' on an empty stack: .ok_or(Error::MismatchedBrackets(index))?
OrphanClose(index) == LutErr(index)

\* The locals of generate_loop_lookup_table during the scan; returned is the
\* index of the early return Err(MismatchedBrackets(index)), -1 while scanning.
ScanStart == [bracket_stack |-> <<>>, loop_lut |-> <<>>, returned |-> -1]

\* One iteration of the for loop over source_code.chars().enumerate().
ScanStep(st, code, index) ==
    LET character == code[index + 1] IN
    IF st.returned # -1 THEN st
    ELSE IF character = "["
    THEN [st EXCEPT !.bracket_stack = PushOpen(st.bracket_stack, index)]
    ELSE IF character = "]"
    THEN IF st.bracket_stack = <<>>
         THEN [st EXCEPT !.returned = OrphanClose(index).index]
         ELSE [st EXCEPT
                 !.bracket_stack = SubSeq(@, 1, Len(@) - 1),
                 !.loop_lut = RecordPair(@, ClosePair(st.bracket_stack, index))]
    ELSE st

\* The iterations lo .. hi-1 of the for loop, in order (evaluated by halves so
\* that long programs do not nest the evaluation deeply).
RECURSIVE ScanRange(_, _, _, _)
ScanRange(st, code, lo, hi) ==
    IF st.returned # -1 \/ lo >= hi THEN st
    ELSE IF hi = lo + 1 THEN ScanStep(st, code, lo)
    ELSE LET mid == (lo + hi) \div 2 IN
         ScanRange(ScanRange(st, code, lo, mid), code, mid, hi)

\* The scan, then the check of the stack after it.
ScanAll(code) ==
    LET st == ScanRange(ScanStart, code, 0, Len(code)) IN
    IF st.returned # -1 THEN LutErr(st.returned)
    ELSE IF st.bracket_stack # <<>> THEN LutErr(UnclosedIndex(st.bracket_stack))
    ELSE LutOk(st.loop_lut)

generate_loop_lookup_table(code) == ScanAll(code)

---------------------------------------------------------------------------
(* Helpers of run *)

increment_memory_pointer(mp) ==
    IF mp < MEMORY_SIZE THEN mp + 1 ELSE 0

\* Faulty variant: the guard is off by one, so 1 wraps to the last cell.
decrement_memory_pointer_From1(mp) ==
    IF mp > 1 THEN mp - 1 ELSE MEMORY_SIZE - 1

decrement_memory_pointer(mp) ==
    IF mp > 0 THEN mp - 1 ELSE MEMORY_SIZE - 1

\* memory[memory_pointer] is a checked index: out of range panics.
InBounds(mp) == mp < MEMORY_SIZE

\* loop_lut.iter().find(|(open_idx, _)| *open_idx == sp).map(|(_, close_idx)| *close_idx)
\* -1 stands for None.
RECURSIVE FindClose(_, _)
FindClose(lut, sp) ==
    IF lut = <<>> THEN -1
    ELSE IF Head(lut)[1] = sp THEN Head(lut)[2]
    ELSE FindClose(Tail(lut), sp)

\* Faulty variant: the ']' arm copies the '[' arm and compares open_idx.
RECURSIVE FindOpen_ByOpen(_, _)
FindOpen_ByOpen(lut, sp) ==
    IF lut = <<>> THEN -1
    ELSE IF Head(lut)[1] = sp THEN Head(lut)[1]
    ELSE FindOpen_ByOpen(Tail(lut), sp)

\* loop_lut.iter().find(|(_, close_idx)| *close_idx == sp).map(|(open_idx, _)| *open_idx)
RECURSIVE FindOpen(_, _)
FindOpen(lut, sp) ==
    IF lut = <<>> THEN -1
    ELSE IF Head(lut)[2] = sp THEN Head(lut)[1]
    ELSE FindOpen(Tail(lut), sp)

\* print!("{}", b as char): the UTF-8 encoding of the code point U+0000 .. U+00FF.
PrintAsChar(b) ==
    IF b < 128 THEN <<b>> ELSE <<192 + (b \div 64), 128 + (b % 64)>>

\* What read_line leaves in input: a line whose first byte is first, nothing at
\* end of input, or an error (invalid UTF-8) on which unwrap panics.
\* 0xC3 is the first byte of a line that starts with a two-byte character.
FirstBytes == {0, NEWLINE, 65, 195}
StdinReads == [kind : {"line"}, first : FirstBytes]
                \cup [kind : {"eof", "invalid"}, first : {-1}]

\* No read_line in this iteration.
NoRead == [kind |-> "none", first |-> -1]

\* The history record of one loop iteration: the position and character fetched,
\* the data pointer and the current cell (or -1 when out of the tape) before it,
\* and what read_line gave when the iteration called it.
Executed(character) ==
    [ip |-> source_pointer, op |-> character, mp |-> memory_pointer,
     cell |-> IF InBounds(memory_pointer) THEN memory[memory_pointer] ELSE -1,
     input |-> NoRead]

NoStep == [ip |-> -1, op |-> "", mp |-> -1, cell |-> -1, input |-> NoRead]

---------------------------------------------------------------------------
(* Initial states *)

InitRun(programs) ==
    /\ source_code \in programs
    /\ overflow_checks \in BOOLEAN
    /\ pc = "start"
    /\ error = -1
    /\ loop_lut = <<>>
    /\ memory = [i \in 0 .. MEMORY_SIZE - 1 |-> 0]
    /\ memory_pointer = 0
    /\ source_pointer = 0
    /\ stdout = <<>>
    /\ lines_read = 0
    /\ last_step = NoStep

Init == InitRun(SeqsUpTo(Chars, MaxLen))

---------------------------------------------------------------------------
(* run *)

\* Faulty variant: the newline is printed before the brackets are resolved.
RunStart_PrintFirst ==
    /\ pc = "start"
    /\ stdout' = Append(stdout, NEWLINE)
    /\ LET r == generate_loop_lookup_table(source_code) IN
       IF r.ok
       THEN /\ pc' = "loop"
            /\ loop_lut' = r.lut
            /\ UNCHANGED error
       ELSE /\ pc' = "err"
            /\ error' = r.index
            /\ UNCHANGED loop_lut
    /\ UNCHANGED <<source_code, overflow_checks, memory, memory_pointer,
                   source_pointer, lines_read, last_step>>

\* Lines 52-57: resolve the brackets, create the state, print a newline.
RunStart ==
    /\ pc = "start"
    /\ LET r == generate_loop_lookup_table(source_code) IN
       IF r.ok
       THEN /\ pc' = "loop"
            /\ loop_lut' = r.lut
            /\ stdout' = Append(stdout, NEWLINE)
            /\ UNCHANGED error
       ELSE /\ pc' = "err"
            /\ error' = r.index
            /\ UNCHANGED <<loop_lut, stdout>>
    /\ UNCHANGED <<source_code, overflow_checks, memory, memory_pointer,
                   source_pointer, lines_read, last_step>>

\* The loop is at its head and its condition holds.
AtLoop == pc = "loop" /\ source_pointer < ByteLen(source_code)

\* chars().nth(source_pointer) is Some(character)
Fetch(character) ==
    /\ AtLoop
    /\ source_pointer < Len(source_code)
    /\ source_code[source_pointer + 1] = character

Panic ==
    /\ pc' = "panic"
    /\ UNCHANGED <<error, loop_lut, memory, memory_pointer, source_pointer, stdout>>

\* Line 59: chars().nth(source_pointer) is None and unwrap panics.
StepFetchNone ==
    /\ AtLoop
    /\ source_pointer >= Len(source_code)
    /\ last_step' = [ip |-> source_pointer, op |-> "", mp |-> memory_pointer,
                     cell |-> -1, input |-> NoRead]
    /\ Panic
    /\ UNCHANGED <<source_code, overflow_checks, lines_read>>

\* '>'
StepRight ==
    /\ Fetch(">")
    /\ last_step' = Executed(">")
    /\ memory_pointer' = increment_memory_pointer(memory_pointer)
    /\ source_pointer' = source_pointer + 1
    /\ UNCHANGED <<source_code, overflow_checks, pc, error, loop_lut, memory, stdout,
                   lines_read>>

\* '<'
StepLeft ==
    /\ Fetch("<")
    /\ last_step' = Executed("<")
    /\ memory_pointer' = decrement_memory_pointer(memory_pointer)
    /\ source_pointer' = source_pointer + 1
    /\ UNCHANGED <<source_code, overflow_checks, pc, error, loop_lut, memory, stdout,
                   lines_read>>

\* memory[memory_pointer] += 1 on a u8
AddOne(cell) == IF cell = U8_MAX THEN 0 ELSE cell + 1

\* memory[memory_pointer] -= 1 on a u8
SubOne(cell) == IF cell = 0 THEN U8_MAX ELSE cell - 1

\* '+'
StepInc ==
    /\ Fetch("+")
    /\ last_step' = Executed("+")
    /\ IF ~InBounds(memory_pointer) \/ (memory[memory_pointer] = U8_MAX /\ overflow_checks)
       THEN Panic
       ELSE /\ memory' = [memory EXCEPT ![memory_pointer] = AddOne(@)]
            /\ source_pointer' = source_pointer + 1
            /\ UNCHANGED <<pc, error, loop_lut, memory_pointer, stdout>>
    /\ UNCHANGED <<source_code, overflow_checks, lines_read>>

\* '-'
StepDec ==
    /\ Fetch("-")
    /\ last_step' = Executed("-")
    /\ IF ~InBounds(memory_pointer) \/ (memory[memory_pointer] = 0 /\ overflow_checks)
       THEN Panic
       ELSE /\ memory' = [memory EXCEPT ![memory_pointer] = SubOne(@)]
            /\ source_pointer' = source_pointer + 1
            /\ UNCHANGED <<pc, error, loop_lut, memory_pointer, stdout>>
    /\ UNCHANGED <<source_code, overflow_checks, lines_read>>

\* '.'
StepOut ==
    /\ Fetch(".")
    /\ Len(stdout) < MaxOut
    /\ last_step' = Executed(".")
    /\ IF ~InBounds(memory_pointer)
       THEN Panic
       ELSE /\ stdout' = stdout \o PrintAsChar(memory[memory_pointer])
            /\ source_pointer' = source_pointer + 1
            /\ UNCHANGED <<pc, error, loop_lut, memory, memory_pointer>>
    /\ UNCHANGED <<source_code, overflow_checks, lines_read>>

\* Faulty variant: the byte is stored in the first cell (memory[0]).
StepIn_FirstCell ==
    /\ Fetch(",")
    /\ lines_read < MaxIn
    /\ lines_read' = lines_read + 1
    /\ \E input \in StdinReads :
         /\ last_step' = [Executed(",") EXCEPT !.input = input]
         /\ IF input.kind # "line" \/ ~InBounds(memory_pointer)
            THEN Panic
            ELSE /\ memory' = [memory EXCEPT ![0] = input.first]
                 /\ source_pointer' = source_pointer + 1
                 /\ UNCHANGED <<pc, error, loop_lut, memory_pointer, stdout>>
    /\ UNCHANGED <<source_code, overflow_checks>>

\* ','
StepIn ==
    /\ Fetch(",")
    /\ lines_read < MaxIn
    /\ lines_read' = lines_read + 1
    /\ \E input \in StdinReads :
         /\ last_step' = [Executed(",") EXCEPT !.input = input]
         /\ IF input.kind # "line" \/ ~InBounds(memory_pointer)
            THEN Panic
            ELSE /\ memory' = [memory EXCEPT ![memory_pointer] = input.first]
                 /\ source_pointer' = source_pointer + 1
                 /\ UNCHANGED <<pc, error, loop_lut, memory_pointer, stdout>>
    /\ UNCHANGED <<source_code, overflow_checks>>

\* Faulty variant: lands on the matched bracket itself (the += 1 is skipped after a jump).
JumpTo_NoAdvance(target) ==
    IF target = -1
    THEN /\ pc' = "err"
         /\ error' = source_pointer
         /\ UNCHANGED <<loop_lut, memory, memory_pointer, source_pointer, stdout>>
    ELSE /\ source_pointer' = target
         /\ UNCHANGED <<pc, error, loop_lut, memory, memory_pointer, stdout>>

\* The jump of a bracket arm: source_pointer = target?, then source_pointer += 1;
\* a lookup miss (-1) returns Err(MismatchedBrackets(source_pointer)).
JumpTo(target) ==
    IF target = -1
    THEN /\ pc' = "err"
         /\ error' = source_pointer
         /\ UNCHANGED <<loop_lut, memory, memory_pointer, source_pointer, stdout>>
    ELSE /\ source_pointer' = target + 1
         /\ UNCHANGED <<pc, error, loop_lut, memory, memory_pointer, stdout>>

FallThrough ==
    /\ source_pointer' = source_pointer + 1
    /\ UNCHANGED <<pc, error, loop_lut, memory, memory_pointer, stdout>>

\* '['
StepOpen ==
    /\ Fetch("[")
    /\ last_step' = Executed("[")
    /\ IF ~InBounds(memory_pointer)
       THEN Panic
       ELSE IF memory[memory_pointer] = 0
            THEN JumpTo(FindClose(loop_lut, source_pointer))
            ELSE FallThrough
    /\ UNCHANGED <<source_code, overflow_checks, lines_read>>

\* ']'
StepClose ==
    /\ Fetch("]")
    /\ last_step' = Executed("]")
    /\ IF ~InBounds(memory_pointer)
       THEN Panic
       ELSE IF memory[memory_pointer] # 0
            THEN JumpTo(FindOpen(loop_lut, source_pointer))
            ELSE FallThrough
    /\ UNCHANGED <<source_code, overflow_checks, lines_read>>

\* _ => {}
StepOther ==
    /\ \E character \in Others :
         /\ Fetch(character)
         /\ last_step' = Executed(character)
    /\ FallThrough
    /\ UNCHANGED <<source_code, overflow_checks, lines_read>>

\* Lines 93-94: the loop condition fails; print a newline and return Ok(()).
RunFinish ==
    /\ pc = "loop"
    /\ source_pointer >= ByteLen(source_code)
    /\ pc' = "ok"
    /\ stdout' = Append(stdout, NEWLINE)
    /\ UNCHANGED <<source_code, overflow_checks, error, loop_lut, memory,
                   memory_pointer, source_pointer, lines_read, last_step>>

Next ==
    \/ RunStart
    \/ StepFetchNone
    \/ StepRight
    \/ StepLeft
    \/ StepInc
    \/ StepDec
    \/ StepOut
    \/ StepIn
    \/ StepOpen
    \/ StepClose
    \/ StepOther
    \/ RunFinish

Spec == Init /\ [][Next]_vars

---------------------------------------------------------------------------
(* Bracket resolution on its own: programs of brackets and one other command, *)
(* and the call of generate_loop_lookup_table at the head of run.             *)

LutChars == {"[", "]", "+"}

InitLut == InitRun(SeqsUpTo(LutChars, MaxLutLen))

NextLut == RunStart

SpecLut == InitLut /\ [][NextLut]_vars

---------------------------------------------------------------------------
(* Nesting depth, stated without the stack: what "matching" means. *)

\* Number of positions 0 .. i-1 of code that hold character.
CountBefore(code, character, i) ==
    Cardinality({k \in 1 .. i : code[k] = character})

\* Nesting depth in front of position i: opens minus closes among 0 .. i-1.
Depth(code, i) == CountBefore(code, "[", i) - CountBefore(code, "]", i)

Balanced(code) ==
    /\ \A i \in 0 .. Len(code) : Depth(code, i) >= 0
    /\ Depth(code, Len(code)) = 0

\* c is the ']' that closes the '[' at o: the first position after o at which
\* the depth is back to the depth in front of o.
Matches(code, o, c) ==
    /\ o < c
    /\ code[o + 1] = "["
    /\ code[c + 1] = "]"
    /\ Depth(code, c + 1) = Depth(code, o)
    /\ \A k \in o + 1 .. c : Depth(code, k) > Depth(code, o)

Positions(code) == 0 .. Len(code) - 1

MatchedPairs(code) ==
    {<<o, c>> \in Positions(code) \X Positions(code) : Matches(code, o, c)}

BracketPositions(code) ==
    {i \in Positions(code) : code[i + 1] \in {"[", "]"}}

LutPairs == {loop_lut[k] : k \in 1 .. Len(loop_lut)}

\* p is the first ']' met with an empty stack: no depth before it is negative
\* and the depth in front of it is 0.
FirstOrphan(code, p) ==
    /\ code[p + 1] = "]"
    /\ Depth(code, p) = 0
    /\ \A i \in 0 .. p : Depth(code, i) >= 0

\* The '[' at o is never closed.
Unclosed(code, o) ==
    /\ code[o + 1] = "["
    /\ \A k \in o + 1 .. Len(code) : Depth(code, k) > Depth(code, o)

\* C1: on a program with balanced brackets the resolution succeeds and the table
\* holds exactly the pairs (o, c) where c closes o at the same nesting depth;
\* every bracket position is in a pair; "[[]]" gives (1,2),(0,3) and "[[[]]]"
\* gives (2,3),(1,4),(0,5).
C1_BalancedResolves ==
    (pc # "start" /\ Balanced(source_code)) =>
       /\ pc = "loop"
       /\ LutPairs = MatchedPairs(source_code)
       /\ \A i \in BracketPositions(source_code) :
             \E pair \in LutPairs : i \in {pair[1], pair[2]}
       /\ (source_code = <<"[", "[", "]", "]">>
             => loop_lut = << <<1, 2>>, <<0, 3>> >>)
       /\ (source_code = <<"[", "[", "[", "]", "]", "]">>
             => loop_lut = << <<2, 3>>, <<1, 4>>, <<0, 5>> >>)

C1_Witness ==
    /\ pc = "loop"
    /\ source_code = <<"[", "[", "]", "+", "[", "]", "]">>
    /\ LutPairs = {<<1, 2>>, <<4, 5>>, <<0, 6>>}

\* C2: when a ']' is met while no '[' is pending, the resolution fails with the
\* position of that first orphan ']', whatever follows it.
C2_OrphanClosePosition ==
    \A p \in Positions(source_code) :
       (pc # "start" /\ FirstOrphan(source_code, p)) => (pc = "err" /\ error = p)

C2_Witness ==
    /\ pc = "err"
    /\ \E p \in Positions(source_code) :
          /\ FirstOrphan(source_code, p)
          /\ error = p
          /\ p > 0
          /\ \E q \in p + 1 .. Len(source_code) - 1 : source_code[q + 1] = "]"
          /\ \E q \in p + 1 .. Len(source_code) - 1 : source_code[q + 1] = "["

\* C3: when the scan meets no orphan ']' and some '[' is never closed, the
\* resolution fails with the position of the most recently opened '[' that is
\* still unclosed; "[[]" gives 0 and "[[" gives 1.
C3_UnclosedOpenPosition ==
    LET unclosed == {o \in Positions(source_code) : Unclosed(source_code, o)} IN
    (/\ pc # "start"
     /\ \A i \in 0 .. Len(source_code) : Depth(source_code, i) >= 0
     /\ unclosed # {})
      => /\ pc = "err"
         /\ error \in unclosed
         /\ \A o \in unclosed : o <= error
         /\ (source_code = <<"[", "[", "]">> => error = 0)
         /\ (source_code = <<"[", "[">> => error = 1)

C3_Witness ==
    /\ pc = "err"
    /\ source_code = <<"[", "[", "]", "[", "+">>
    /\ error = 3

\* C4: on success the table has as many pairs as the program has '[' and no
\* position is in more than one pair, as an open or as a close.
C4_PairCount ==
    pc = "loop" =>
       /\ Len(loop_lut) = CountBefore(source_code, "[", Len(source_code))
       /\ \A i, j \in 1 .. Len(loop_lut) :
             i # j => {loop_lut[i][1], loop_lut[i][2]}
                        \cap {loop_lut[j][1], loop_lut[j][2]} = {}
       /\ \A i \in 1 .. Len(loop_lut) : loop_lut[i][1] # loop_lut[i][2]

C4_Witness ==
    /\ pc = "loop"
    /\ Len(loop_lut) = 3
    /\ \E i \in 1 .. Len(source_code) : source_code[i] = "+"

---------------------------------------------------------------------------
(* Loops: longer programs over the commands that loops need. *)

LoopChars == {"+", ">", "[", "]"}

InitLoop == InitRun(SeqsUpTo(LoopChars, MaxLoopLen))

NextLoop ==
    \/ RunStart
    \/ StepRight
    \/ StepInc
    \/ StepOpen
    \/ StepClose
    \/ RunFinish

SpecLoop == InitLoop /\ [][NextLoop]_vars

---------------------------------------------------------------------------
(* The copy loop: n times '+', then "[>+<-]", for every n a cell can hold. *)

CopyLoop == <<"[", ">", "+", "<", "-", "]">>

Plus(n) == [k \in 1 .. n |-> "+"]

InitCopy == InitRun({Plus(n) \o CopyLoop : n \in 0 .. U8_MAX})

NextCopy ==
    \/ RunStart
    \/ StepRight
    \/ StepLeft
    \/ StepInc
    \/ StepDec
    \/ StepOpen
    \/ StepClose
    \/ RunFinish

SpecCopy == InitCopy /\ [][NextCopy]_vars

---------------------------------------------------------------------------
(* The tape as the specification describes it *)

TAPE_SIZE == MEMORY_SIZE

OnTape(mp) == mp \in 0 .. TAPE_SIZE - 1

\* C5: the data pointer moves in a circle over the TAPE_SIZE cells: '>' adds 1
\* and wraps from TAPE_SIZE-1 to 0, '<' subtracts 1 and wraps from 0 to
\* TAPE_SIZE-1.
C5_PointerCircular ==
    /\ (last_step.op = ">" /\ OnTape(last_step.mp))
          => memory_pointer = (last_step.mp + 1) % TAPE_SIZE
    /\ (last_step.op = "<" /\ OnTape(last_step.mp))
          => memory_pointer = (last_step.mp - 1) % TAPE_SIZE

\* C6: in every state of run the data pointer is a position of the tape.
C6_PointerOnTape == OnTape(memory_pointer)

\* C7: '+' on a cell holding 255 leaves 0 and '-' on a cell holding 0 leaves
\* 255, and the run goes on with the next instruction.
C7_CellWraps ==
    /\ (last_step.op = "+" /\ last_step.cell = U8_MAX)
          => /\ pc # "panic"
             /\ memory[last_step.mp] = 0
             /\ source_pointer = last_step.ip + 1
    /\ (last_step.op = "-" /\ last_step.cell = 0)
          => /\ pc # "panic"
             /\ memory[last_step.mp] = U8_MAX
             /\ source_pointer = last_step.ip + 1

\* C8: a '[' at o executed on a zero cell continues at c + 1, c the ']' matching
\* o; a ']' at c executed on a nonzero cell continues at o + 1, o the '['
\* matching c; a '[' on a nonzero cell and a ']' on a zero cell continue at the
\* next position.
C8_BracketSteps ==
    /\ (last_step.op = "[" /\ last_step.cell = 0)
          => /\ pc \in {"loop", "ok"}
             /\ \E c \in Positions(source_code) :
                   /\ Matches(source_code, last_step.ip, c)
                   /\ source_pointer = c + 1
    /\ (last_step.op = "]" /\ last_step.cell > 0)
          => /\ pc \in {"loop", "ok"}
             /\ \E o \in Positions(source_code) :
                   /\ Matches(source_code, o, last_step.ip)
                   /\ source_pointer = o + 1
    /\ (last_step.op = "[" /\ last_step.cell > 0)
          => /\ pc \in {"loop", "ok"}
             /\ source_pointer = last_step.ip + 1
    /\ (last_step.op = "]" /\ last_step.cell = 0)
          => /\ pc \in {"loop", "ok"}
             /\ source_pointer = last_step.ip + 1

\* A ']' of an outer loop, executed on a nonzero cell, has jumped back over an
\* inner pair to the position after its own '['.
C8_Witness ==
    /\ pc = "loop"
    /\ last_step.op = "]"
    /\ last_step.cell > 0
    /\ source_pointer < last_step.ip - 2
    /\ Matches(source_code, source_pointer - 1, last_step.ip)
    /\ \E o, c \in source_pointer .. last_step.ip - 1 : Matches(source_code, o, c)

\* C9: what the loop of run writes is exactly the current cell's value, as one
\* byte, at each '.' it executes, and nothing at any other step.
C9_OutputIsCellValues ==
    [][AtLoop =>
         stdout' = IF /\ source_pointer < Len(source_code)
                      /\ source_code[source_pointer + 1] = "."
                      /\ InBounds(memory_pointer)
                   THEN Append(stdout, memory[memory_pointer])
                   ELSE stdout]_vars

\* The number of '+' in front of the copy loop.
CopyCount == Len(source_code) - Len(CopyLoop)

\* The number of steps a run of the copy program still has to take, computed
\* from the state alone: the '+' left to execute, then 5 steps for each pass
\* through the body and its ']', and the last newline.
StepsOfLoop(cell) == IF cell = 0 THEN 2 ELSE 5 * cell + 2

StepsLeft ==
    LET n == CopyCount
        k == source_pointer - n
    IN  IF pc = "ok" THEN 0
        ELSE IF pc = "start" THEN 1 + n + StepsOfLoop(n)
        ELSE IF k < 0 THEN (0 - k) + StepsOfLoop(n)
        ELSE IF k = 0 THEN StepsOfLoop(memory[0])
        ELSE IF k <= 4 THEN (6 - k) + 5 * (memory[0] - 1) + 1
        ELSE IF k = 5 THEN 1 + 5 * memory[0] + 1
        ELSE 1

\* C10: n times '+' followed by "[>+<-]" ends with Ok, cell 0 holding 0, cell 1
\* holding n, every other cell 0 and the data pointer at 0.  Termination is
\* stated by a variant: every step takes StepsLeft down by one, a state with
\* steps left is no error and can take a step, and with none left it is Ok.
C10_CopyLoop ==
    [][/\ StepsLeft' = StepsLeft - 1
       /\ StepsLeft' >= 0
       /\ pc' \notin {"err", "panic"}
       /\ (StepsLeft' > 0 => pc' = "loop" /\ (ENABLED NextCopy)')
       /\ (StepsLeft' = 0 =>
             /\ pc' = "ok"
             /\ memory' = [i \in 0 .. TAPE_SIZE - 1 |->
                              IF i = 1 THEN CopyCount ELSE 0]
             /\ memory_pointer' = 0)]_vars

C10_Witness ==
    /\ pc = "ok"
    /\ CopyCount = U8_MAX
    /\ memory[1] = U8_MAX
    /\ memory[0] = 0

---------------------------------------------------------------------------
(* Characters that are no command *)

\* The character the loop is about to fetch, "" when there is none.
CurrentChar ==
    IF source_pointer < Len(source_code)
    THEN source_code[source_pointer + 1]
    ELSE ""

\* C11: a character that is no command is a no-op: the resolution ignores it,
\* a step on it leaves tape, data pointer and output as they are and moves the
\* instruction pointer by one, and the run never aborts on it and stops exactly
\* when the instruction pointer reaches the number N of characters.
C11_OtherIsNoOp ==
    [][/\ pc = "start" =>
             /\ (pc' = "loop" <=> Balanced(source_code))
             /\ (pc' = "loop" => LutPairs' = MatchedPairs(source_code))
       /\ (AtLoop /\ CurrentChar \in Others) =>
             /\ pc' = "loop"
             /\ source_pointer' = source_pointer + 1
             /\ memory' = memory
             /\ memory_pointer' = memory_pointer
             /\ stdout' = stdout
       /\ (pc = "loop" /\ source_pointer >= Len(source_code)) =>
             /\ pc' = "ok"
             /\ source_pointer' = source_pointer]_vars

---------------------------------------------------------------------------
(* Input *)

\* C12: ',' stores the first byte of the line read in the current cell and
\* changes no other cell; when the read gives no byte (end of input) the run
\* does not abort.
C12_FirstByteOrEndOfInput ==
    [][(AtLoop /\ CurrentChar = "," /\ OnTape(memory_pointer)) =>
          /\ last_step'.input.kind = "line" =>
                /\ memory'[memory_pointer] = last_step'.input.first
                /\ \A i \in 0 .. TAPE_SIZE - 1 :
                      i # memory_pointer => memory'[i] = memory[i]
          /\ last_step'.input.kind = "eof" => pc' # "panic"]_vars

---------------------------------------------------------------------------
(* Failed resolution *)

ZeroTape == [i \in 0 .. MEMORY_SIZE - 1 |-> 0]

\* C13: when the brackets do not resolve, run returns the error of the
\* resolution and has executed nothing: no cell written, no line read, no
\* output.
C13_FailedResolutionRunsNothing ==
    (pc # "start" /\ ~Balanced(source_code)) =>
       /\ pc = "err"
       /\ error = generate_loop_lookup_table(source_code).index
       /\ error \in Positions(source_code)
       /\ memory = ZeroTape
       /\ memory_pointer = 0
       /\ source_pointer = 0
       /\ lines_read = 0
       /\ stdout = <<>>
       /\ last_step = NoStep

\* A program that would write, read and output, but whose ']' is an orphan.
C13_Witness ==
    /\ pc = "err"
    /\ source_code = <<".", ",", "]">>
    /\ error = 2
    /\ stdout = <<>>

---------------------------------------------------------------------------
(* Lookups in the table *)

\* C14: after a successful resolution no step of run returns
\* MismatchedBrackets: a '[' executed on a zero cell and a ']' executed on a
\* nonzero cell find their own position in the table.
C14_NoLookupMiss ==
    /\ pc = "err" => last_step = NoStep
    /\ (last_step.op = "[" /\ last_step.cell = 0) =>
          /\ FindClose(loop_lut, last_step.ip) # -1
          /\ pc # "err"
    /\ (last_step.op = "]" /\ last_step.cell > 0) =>
          /\ FindOpen(loop_lut, last_step.ip) # -1
          /\ pc # "err"

\* A ']' on a nonzero cell whose pair is not the first of the table.
C14_Witness ==
    /\ pc = "loop"
    /\ last_step.op = "]"
    /\ last_step.cell > 0
    /\ Len(loop_lut) >= 2
    /\ loop_lut[1][2] # last_step.ip
    /\ source_pointer = FindOpen(loop_lut, last_step.ip) + 1

---------------------------------------------------------------------------
(* How a run ends *)

\* C15: a run ends with Ok, when the instruction pointer reaches the end of the
\* program, or with a MismatchedBrackets error; no state of run is an abort of
\* another kind.
C15_OnlyOkOrErr ==
    /\ pc \in {"start", "loop", "ok", "err"}
    /\ pc = "ok" => source_pointer >= Len(source_code)

---------------------------------------------------------------------------
(* Frames *)

OtherCellsKept ==
    \A i \in 0 .. MEMORY_SIZE - 1 :
       i # memory_pointer => memory'[i] = memory[i]

\* C16: '>' and '<' change only the data pointer; '+', '-' and ',' change only
\* the cell at the data pointer; '.', '[', ']' and characters that are no
\* command change neither the tape nor the data pointer; only '.' appends to
\* the output.
C16_OpcodeFrames ==
    [][AtLoop =>
         /\ CurrentChar \in {">", "<"} =>
               /\ memory' = memory
               /\ stdout' = stdout
         /\ CurrentChar \in {"+", "-", ","} =>
               /\ memory_pointer' = memory_pointer
               /\ OtherCellsKept
               /\ stdout' = stdout
         /\ CurrentChar \in {".", "[", "]"} \cup Others =>
               /\ memory' = memory
               /\ memory_pointer' = memory_pointer
         /\ CurrentChar # "." => stdout' = stdout
         /\ CurrentChar = "." =>
               /\ Len(stdout') >= Len(stdout)
               /\ SubSeq(stdout', 1, Len(stdout)) = stdout]_vars

\* A ',' has written a cell other than the first and left the first as it was.
C16_Witness ==
    /\ pc = "loop"
    /\ last_step.op = ","
    /\ last_step.mp = 1
    /\ memory_pointer = 1
    /\ memory[1] = 65
    /\ memory[0] = 1

---------------------------------------------------------------------------
(* Progress *)

NoBrackets(code) == \A k \in 1 .. Len(code) : code[k] \notin {"[", "]"}

\* C17: every step of run takes the instruction pointer up, except a ']'
\* executed on a nonzero cell; so a program without brackets, of N characters,
\* ends with the instruction pointer at N.
C17_PointerAdvances ==
    [][/\ (/\ AtLoop
           /\ ~(/\ CurrentChar = "]"
                /\ InBounds(memory_pointer)
                /\ memory[memory_pointer] # 0))
             => source_pointer' > source_pointer
       /\ (NoBrackets(source_code) /\ pc' \notin {"start", "loop"})
             => /\ pc' = "ok"
                /\ source_pointer' = Len(source_code)]_vars

---------------------------------------------------------------------------
(* Shape of the table *)

\* C18: in the table of a successful resolution every pair (o, c) has o < c,
\* two pairs are disjoint or one lies strictly inside the other, and the pairs
\* are listed by increasing closing position.
C18_TableShape ==
    pc = "loop" =>
       /\ \A i \in 1 .. Len(loop_lut) : loop_lut[i][1] < loop_lut[i][2]
       /\ \A i, j \in 1 .. Len(loop_lut) :
             i < j =>
                LET a == loop_lut[i]
                    b == loop_lut[j]
                IN  /\ a[2] < b[2]
                    /\ \/ a[2] < b[1]
                       \/ b[2] < a[1]
                       \/ (a[1] < b[1] /\ b[2] < a[2])
                       \/ (b[1] < a[1] /\ a[2] < b[2])

\* A table with two disjoint pairs inside a third.
C18_Witness ==
    /\ pc = "loop"
    /\ source_code = <<"[", "[", "]", "[", "]", "]">>
    /\ loop_lut = << <<1, 2>>, <<3, 4>>, <<0, 5>> >>

---------------------------------------------------------------------------
(* sanitize_input, and a run of the sanitized program beside the run *)

IsCommand(character) == character \in Commands

\* sanitize_input: the characters that are commands, in their order.
sanitize_input(input) == SelectSeq(input, IsCommand)

\* The state of run after lines 52-57 on the program code.
RunStartOn(code) ==
    LET r == generate_loop_lookup_table(code) IN
    [pc |-> IF r.ok THEN "loop" ELSE "err",
     error |-> r.index,
     memory |-> [i \in 0 .. MEMORY_SIZE - 1 |-> 0],
     memory_pointer |-> 0,
     source_pointer |-> 0,
     stdout |-> IF r.ok THEN <<NEWLINE>> ELSE <<>>]

\* The state after a bracket arm that looked up target.
JumpOn(st, target) ==
    IF target = -1
    THEN [st EXCEPT !.pc = "err", !.error = st.source_pointer]
    ELSE [st EXCEPT !.source_pointer = target + 1]

\* One pass through the loop of run (lines 58-94) on the program code with the
\* table lut, from the state st: the iteration at st.source_pointer, or the
\* end of the loop; input is what read_line gives if the iteration calls it.
RunLoopOn(code, lut, checks, st, input) ==
    LET sp == st.source_pointer
        mp == st.memory_pointer
        aborted == [st EXCEPT !.pc = "panic"]
        advanced == [st EXCEPT !.source_pointer = sp + 1]
    IN
    IF sp >= ByteLen(code)
    THEN [st EXCEPT !.pc = "ok", !.stdout = Append(@, NEWLINE)]
    ELSE IF sp >= Len(code) THEN aborted
    ELSE LET character == code[sp + 1] IN
    IF character = ">"
    THEN [advanced EXCEPT !.memory_pointer = increment_memory_pointer(mp)]
    ELSE IF character = "<"
    THEN [advanced EXCEPT !.memory_pointer = decrement_memory_pointer(mp)]
    ELSE IF character \in Others THEN advanced
    ELSE IF ~InBounds(mp) THEN aborted
    ELSE IF character = "+"
    THEN IF st.memory[mp] = U8_MAX /\ checks THEN aborted
         ELSE [advanced EXCEPT !.memory[mp] = AddOne(@)]
    ELSE IF character = "-"
    THEN IF st.memory[mp] = 0 /\ checks THEN aborted
         ELSE [advanced EXCEPT !.memory[mp] = SubOne(@)]
    ELSE IF character = "."
    THEN [advanced EXCEPT !.stdout = @ \o PrintAsChar(st.memory[mp])]
    ELSE IF character = ","
    THEN IF input.kind # "line" THEN aborted
         ELSE [advanced EXCEPT !.memory[mp] = input.first]
    ELSE IF character = "["
    THEN IF st.memory[mp] = 0 THEN JumpOn(st, FindClose(lut, sp)) ELSE advanced
    ELSE IF st.memory[mp] # 0 THEN JumpOn(st, FindOpen(lut, sp)) ELSE advanced

\* The position mapping of the filter: position i of code is position
\* FilterPos(code, i) of sanitize_input(code), the number of commands before i.
FilterPos(code, i) ==
    Cardinality({k \in 1 .. Len(code) : k <= i /\ IsCommand(code[k])})

\* The state of the run as a state of a run of the sanitized program.
Sanitized ==
    [pc |-> pc,
     error |-> IF error = -1 THEN -1 ELSE FilterPos(source_code, error),
     memory |-> memory,
     memory_pointer |-> memory_pointer,
     source_pointer |-> FilterPos(source_code, source_pointer),
     stdout |-> stdout]

\* C19: a run of a program is a run of its sanitized form: a step on a
\* character that is no command is no step of the sanitized run, every other
\* step is the step of the sanitized run, with the same outcome, output, tape
\* and data pointer, and the instruction pointers related by the filter.
C19_SanitizedRunIsSame ==
    [][LET clean == sanitize_input(source_code) IN
       IF pc = "start"
       THEN /\ Sanitized.pc = "start"
            /\ Sanitized' = RunStartOn(clean)
       ELSE IF AtLoop /\ CurrentChar \in Others
       THEN Sanitized' = Sanitized
       ELSE pc = "loop" =>
              Sanitized' = RunLoopOn(clean, generate_loop_lookup_table(clean).lut,
                                     overflow_checks, Sanitized, last_step'.input)]_vars

===========================================================================
